---- MODULE Spec2Model ----
(***************************************************************************)
(* Dev Debug Helper (src/src/index.ts): the metadata extractor, the copy   *)
(* formatter and the interactive session state machine.                    *)
(*                                                                         *)
(* JavaScript strings are sequences of one-character strings.  A value     *)
(* that may be a string, null, undefined or some other object is a record  *)
(* [t, v]: t is its type tag and v its characters (<<>> unless a string).  *)
(***************************************************************************)
EXTENDS Integers, Sequences, FiniteSets, TLC

\* ------------------------------------------------------------ JS values

Str(s) == [t |-> "string", v |-> s]
Null == [t |-> "null", v |-> <<>>]
Undefined == [t |-> "undefined", v |-> <<>>]
\* a truthy value that is not a string (an object, such as SVGAnimatedString)
Obj == [t |-> "object", v |-> <<>>]

\* JavaScript truthiness of a value: null, undefined and "" are falsy
Truthy(x) == CASE x.t = "string" -> x.v # <<>>
               [] x.t = "object" -> TRUE
               [] OTHER -> FALSE

\* String.prototype.substring(from) for 0 <= from <= length
Substring(s, from) == SubSeq(s, from + 1, Len(s))

\* String.prototype.indexOf(pat): 0-based index of the first occurrence, or -1
IndexOf(s, pat) ==
  LET hits == {i \in 0..(Len(s) - Len(pat)) : SubSeq(s, i + 1, i + Len(pat)) = pat}
  IN IF hits = {} THEN -1 ELSE CHOOSE i \in hits : \A j \in hits : i <= j

\* String.prototype.lastIndexOf(pat): 0-based index of the last occurrence, or -1
LastIndexOf(s, pat) ==
  LET hits == {i \in 0..(Len(s) - Len(pat)) : SubSeq(s, i + 1, i + Len(pat)) = pat}
  IN IF hits = {} THEN -1 ELSE CHOOSE i \in hits : \A j \in hits : i >= j

\* one character of String.prototype.toLowerCase over the letters tag names use
LowerChar(c) == CASE c = "A" -> "a" [] c = "D" -> "d" [] c = "I" -> "i"
                  [] c = "V" -> "v" [] c = "P" -> "p" [] OTHER -> c

ToLowerCase(s) == [i \in 1..Len(s) |-> LowerChar(s[i])]

\* one decimal digit as a character
Digit(d) == CASE d = 0 -> "0" [] d = 1 -> "1" [] d = 2 -> "2" [] d = 3 -> "3"
              [] d = 4 -> "4" [] d = 5 -> "5" [] d = 6 -> "6" [] d = 7 -> "7"
              [] d = 8 -> "8" [] OTHER -> "9"

RECURSIVE NumToString(_)
\* Number.prototype.toString() of a natural number
NumToString(n) == IF n < 10 THEN <<Digit(n)>>
                  ELSE NumToString(n \div 10) \o <<Digit(n % 10)>>

\* ------------------------------------------------- formatCopyText (52-66)

\* the default copy formatter ending its last line with a newline too
FormatCopyText_TrailingNewline(info) ==
  (IF Truthy(info.filePath)
   THEN <<"/", "/", " ">> \o info.filePath.v
        \o (IF Truthy(info.lineNumber) THEN <<":">> \o info.lineNumber.v ELSE <<>>)
        \o <<"\n">>
   ELSE <<>>)
  \o (IF Truthy(info.componentName)
      THEN <<"/", "/", " ", "C", "o", "m", "p", "o", "n", "e", "n", "t", ":", " ">>
           \o info.componentName.v \o <<"\n">>
      ELSE <<>>)
  \o <<"c", "l", "a", "s", "s", "N", "a", "m", "e", "=", "\"">>
  \o info.className \o <<"\"", "\n">>

\* the default copy formatter; info is an ElementInfo
FormatCopyText(info) ==
  LET r1 == IF Truthy(info.filePath)
            THEN <<"/", "/", " ">> \o info.filePath.v
                 \o (IF Truthy(info.lineNumber) THEN <<":">> \o info.lineNumber.v
                     ELSE <<>>)
                 \o <<"\n">>
            ELSE <<>>
      r2 == IF Truthy(info.componentName)
            THEN r1 \o <<"/", "/", " ", "C", "o", "m", "p", "o", "n", "e", "n", "t",
                         ":", " ">> \o info.componentName.v \o <<"\n">>
            ELSE r1
  IN r2 \o <<"c", "l", "a", "s", "s", "N", "a", "m", "e", "=", "\"">>
        \o info.className \o <<"\"">>

\* ------------------------------------------- getReactSourceInfo (105-174)

\* let maxDepth = 20 (line 123)
MaxDepth == 20

\* lines 130-142 with substring(srcIndex): the slash before src is kept
NormalizePath_KeepSlash(fileName) ==
  LET srcIndex == IndexOf(fileName, <<"/", "s", "r", "c", "/">>)
      lastSlash == LastIndexOf(fileName, <<"/">>)
  IN IF srcIndex # -1 THEN Substring(fileName, srcIndex)
     ELSE IF lastSlash # -1 THEN Substring(fileName, lastSlash + 1)
     ELSE fileName

\* lines 130-142: the path relative to the first /src/, else the bare file name
NormalizePath(fileName) ==
  LET srcIndex == IndexOf(fileName, <<"/", "s", "r", "c", "/">>)
      lastSlash == LastIndexOf(fileName, <<"/">>)
  IN IF srcIndex # -1 THEN Substring(fileName, srcIndex + 1)
     ELSE IF lastSlash # -1 THEN Substring(fileName, lastSlash + 1)
     ELSE fileName

\* A fiber is a record
\*   [hasSource : BOOLEAN,  fileName : value,  lineNumber : -1 (absent) or Nat,
\*    typeKind : "none" | "string" | "component",  displayName, name : value,
\*    ret : 0 (null) or the id of the parent fiber]
\* and fibers maps the ids 1..n to fibers.

\* lines 126-147 on one fiber: <<result', threw>>
SourceStep(fiber, result) ==
  IF fiber.hasSource /\ Truthy(fiber.fileName)
  THEN IF fiber.fileName.t # "string"
       THEN <<result, TRUE>>          \* filePath.indexOf is not a function
       ELSE <<[result EXCEPT
                 !.filePath = Str(NormalizePath(fiber.fileName.v)),
                 !.lineNumber = IF fiber.lineNumber = -1 THEN Null
                                ELSE Str(NumToString(fiber.lineNumber))],
              FALSE>>
  ELSE <<result, FALSE>>

\* lines 150-158 on one fiber
NameStep(fiber, result) ==
  LET typeName == IF Truthy(fiber.displayName) THEN fiber.displayName
                  ELSE fiber.name
  IN IF fiber.typeKind # "none" /\ Truthy(typeName) /\ ~Truthy(result.componentName)
        /\ fiber.typeKind # "string"
     THEN [result EXCEPT !.componentName = typeName]
     ELSE result

RECURSIVE WalkFrom_OneMore(_, _, _, _, _)
\* the while loop with the test maxDepth >= 0: one instance too many
WalkFrom_OneMore(fibers, fiber, maxDepth, result, examined) ==
  IF fiber = 0 \/ maxDepth < 0 THEN [result |-> result, examined |-> examined]
  ELSE LET s == SourceStep(fibers[fiber], result)
       IN IF s[2] THEN [result |-> s[1], examined |-> examined + 1]
          ELSE LET r == NameStep(fibers[fiber], s[1])
               IN IF Truthy(r.filePath) /\ Truthy(r.componentName)
                  THEN [result |-> r, examined |-> examined + 1]
                  ELSE WalkFrom_OneMore(fibers, fibers[fiber].ret, maxDepth - 1, r,
                                        examined + 1)

RECURSIVE WalkFrom(_, _, _, _, _)
\* the while loop of lines 124-167, with the number of instances whose body it
\* has run; a throw leaves the loop with result as it is
WalkFrom(fibers, fiber, maxDepth, result, examined) ==
  IF fiber = 0 \/ maxDepth <= 0 THEN [result |-> result, examined |-> examined]
  ELSE LET s == SourceStep(fibers[fiber], result)
       IN IF s[2] THEN [result |-> s[1], examined |-> examined + 1]
          ELSE LET r == NameStep(fibers[fiber], s[1])
               IN IF Truthy(r.filePath) /\ Truthy(r.componentName)
                  THEN [result |-> r, examined |-> examined + 1]
                  ELSE WalkFrom(fibers, fibers[fiber].ret, maxDepth - 1, r,
                                examined + 1)

\* what the loop leaves in result
Walk(fibers, fiber, maxDepth, result) ==
  WalkFrom(fibers, fiber, maxDepth, result, 0).result

\* element is [className, tagName, fiberKey : BOOLEAN, root : fiber id, fibers]
GetReactSourceInfo(element) ==
  LET result == [filePath |-> Null, lineNumber |-> Null, componentName |-> Null]
  IN IF ~element.fiberKey THEN result
     ELSE Walk(element.fibers, element.root, MaxDepth, result)

\* ------------------------------------------------------- getElementInfo

\* x || null (lines 191-193)
OrNull(x) == IF Truthy(x) THEN x ELSE Null

NoInfo == [isNull |-> TRUE]

\* getElementInfo giving up when the element carries no fiber
GetElementInfo_NullWithoutFiber(element) ==
  IF ~Truthy(element.className) \/ element.className.t # "string" \/ ~element.fiberKey
  THEN NoInfo
  ELSE LET reactInfo == GetReactSourceInfo(element)
       IN [isNull |-> FALSE,
           className |-> element.className.v,
           tagName |-> ToLowerCase(element.tagName),
           filePath |-> OrNull(reactInfo.filePath),
           lineNumber |-> OrNull(reactInfo.lineNumber),
           componentName |-> OrNull(reactInfo.componentName)]

\* getElementInfo (179-195)
GetElementInfo(element) ==
  IF ~Truthy(element.className) \/ element.className.t # "string"
  THEN NoInfo
  ELSE LET reactInfo == GetReactSourceInfo(element)
       IN [isNull |-> FALSE,
           className |-> element.className.v,
           tagName |-> ToLowerCase(element.tagName),
           filePath |-> OrNull(reactInfo.filePath),
           lineNumber |-> OrNull(reactInfo.lineNumber),
           componentName |-> OrNull(reactInfo.componentName)]

\* ------------------------------------------------------------ the session

VARIABLES
  isInitialized,   \* let isInitialized (line 91)
  isActive,        \* let isActive (line 92)
  config,          \* let config (line 93)
  tooltip,         \* let tooltip (line 94): the element, id 0 when null
  body,            \* the tooltip elements among the children of document.body
  handlers,        \* lines 97-100: the closure each handler variable refers to, 0 when null
  listeners,       \* the document's registered listeners, per event type, in order
  ctrlPressed,     \* let ctrlPressed (line 306), one per attachEventListeners call
  localStorage,    \* window.localStorage
  hostname,        \* window.location.hostname
  globals,         \* the properties of window that init sets and destroy deletes
  frames,          \* requestAnimationFrame callbacks not yet run, oldest first
  writes,          \* clipboard writes not yet settled
  toasts,          \* notification elements in the document, oldest first
  layout,          \* viewport size, the tooltip's box size, the pointer positions
  dom,             \* the elements an event can target
  prevented,       \* whether the last contextmenu event had its default prevented
  lastOp,          \* the operation that produced this state: "init", "destroy",
                   \* "setEnabled", "toggle", "event" (a document event), "async"
                   \* (a callback of a frame, a clipboard write or a timer),
                   \* "blur" (the window lost focus)
  ret,             \* what that operation returned (toggle) or logged last (init,
                   \* destroy); for a callback, "resolved" or "rejected" (a
                   \* clipboard write settled) or "removed" (a notification left)
  pre1,            \* the persisted entry before the last operation, if it was a toggle
  pre2,            \* the entry before the toggle that came just before that toggle
  lastSet,         \* the value most recently set under the current storage key
  arg,             \* the input of a function under test
  out              \* its result

env == <<localStorage, hostname, layout, dom>>
session == <<isInitialized, isActive, config, tooltip, body, handlers, listeners,
             ctrlPressed, globals>>
async == <<frames, writes, toasts>>
history == <<prevented, lastOp, ret, pre1, pre2, lastSet>>
pure == <<arg, out>>
vars == <<localStorage, hostname, layout, dom, isInitialized, isActive, config,
          tooltip, body, handlers, listeners, ctrlPressed, globals, frames,
          writes, toasts, prevented, lastOp, ret, pre1, pre2, lastSet, arg, out>>

\* ------------------------------------------------------------ bounds

\* closures attachEventListeners can have alive at once
MaxClosures == 2
\* animation-frame callbacks pending at once
MaxFrames == 1
\* clipboard writes in flight at once
MaxWrites == 1
\* notifications in the document at once
MaxToasts == 2

\* frame callbacks, clipboard writes and notifications outstanding together
MaxPending == 2

\* ------------------------------------------------------ DEFAULT_CONFIG

DefaultTheme == [primary |-> "#00ff88", background |-> "#1a1a2e",
                 text |-> "#00ff88", border |-> "#00ff88"]

DEFAULT_CONFIG == [storageKey |-> "devDebugEnabled",
                   devOnly |-> TRUE,
                   allowedHosts |-> {"localhost", "127.0.0.1"},
                   formatCopyText |-> "default",
                   formatTooltip |-> "default",
                   theme |-> DefaultTheme]

ConfigFields == {"storageKey", "devOnly", "allowedHosts", "formatCopyText",
                 "formatTooltip"}
ThemeFields == {"primary", "background", "text", "border"}

\* A user configuration: has and themeHas are the properties it defines, val and
\* val.theme carry their values.
UserConfig(has, themeHas, val) == [has |-> has, themeHas |-> themeHas, val |-> val]

\* lines 432-439: { ...DEFAULT_CONFIG, ...userConfig, theme: { ... } }
MergeConfig(u) ==
  [storageKey |-> IF "storageKey" \in u.has THEN u.val.storageKey
                  ELSE DEFAULT_CONFIG.storageKey,
   devOnly |-> IF "devOnly" \in u.has THEN u.val.devOnly ELSE DEFAULT_CONFIG.devOnly,
   allowedHosts |-> IF "allowedHosts" \in u.has THEN u.val.allowedHosts
                    ELSE DEFAULT_CONFIG.allowedHosts,
   formatCopyText |-> IF "formatCopyText" \in u.has THEN u.val.formatCopyText
                      ELSE DEFAULT_CONFIG.formatCopyText,
   formatTooltip |-> IF "formatTooltip" \in u.has THEN u.val.formatTooltip
                     ELSE DEFAULT_CONFIG.formatTooltip,
   theme |-> [f \in ThemeFields |-> IF f \in u.themeHas THEN u.val.theme[f]
                                    ELSE DEFAULT_CONFIG.theme[f]]]

\* the configurations callers pass to init
UserConfigs ==
  { UserConfig({}, {}, DEFAULT_CONFIG),
    UserConfig({"storageKey", "devOnly", "formatCopyText"}, {"primary"},
               [DEFAULT_CONFIG EXCEPT !.storageKey = "k2", !.devOnly = FALSE,
                                      !.formatCopyText = "custom",
                                      !.theme.primary = "#ff0000"]),
    UserConfig({"storageKey", "allowedHosts"}, {},
               [DEFAULT_CONFIG EXCEPT !.storageKey = "k2",
                                      !.allowedHosts = {"dev.example"}]) }

\* ------------------------------------------------------- localStorage

Absent == "<null>"
StorageKeys == {"devDebugEnabled", "k2"}
StorageValues == {Absent, "true", "false", "1"}

BoolToString(b) == IF b THEN "true" ELSE "false"

\* isDebugEnabled (387-389), reading storage st under configuration cfg
IsDebugEnabledIn(st, cfg) == st[cfg.storageKey] = "true"

IsDebugEnabled == IsDebugEnabledIn(localStorage, config)

\* ------------------------------------------------- overlay presenter

\* no element: let tooltip = null
NoTooltip == [id |-> 0, display |-> "none", left |-> 0, top |-> 0, text |-> <<>>]

\* the identity of a newly created element: one that neither a pending callback
\* nor the document still holds
FreshElement(fr) ==
  CHOOSE i \in 1..(Len(fr) + Cardinality(body) + 1) :
    /\ i \notin body
    /\ \A k \in 1..Len(fr) : fr[k].tip # i
    /\ \A j \in 1..(i - 1) : j \in body \/ \E k \in 1..Len(fr) : fr[k].tip = j

\* createTooltip (200-225): the element it returns
CreateTooltip(tip, fr) ==
  IF tip.id # 0 THEN tip
  ELSE [id |-> FreshElement(fr), display |-> "none", left |-> 0, top |-> 0,
        text |-> <<>>]

\* document.body after an event that found the tooltip variable holding old and
\* left it holding new: createTooltip appends the element when it has created
\* it (line 223), that is when the variable was null
AppendChild(els, old, new) ==
  IF old.id = 0 /\ new.id # 0 THEN els \cup {new.id} ELSE els

\* showTooltip (230-247): pg is the page state the handlers of one event thread
\* through, [ctrl, tip, frames, writes, prevented]
ShowTooltip(pg, e, text) ==
  LET tip == CreateTooltip(pg.tip, pg.frames)
  IN [pg EXCEPT
        !.tip = [tip EXCEPT !.text = text, !.display = "block",
                            !.left = e.x + 15, !.top = e.y + 15],
        !.frames = Append(pg.frames, [tip |-> tip.id, x |-> e.x, y |-> e.y])]

\* hideTooltip (252-256)
HideTooltip(tip) == IF tip.id # 0 THEN [tip EXCEPT !.display = "none"] ELSE tip

\* the callback of lines 238-246, run for frame f; an element that is not
\* displayed has an all-zero bounding box, and a callback whose element has left
\* the document changes nothing of the page
FrameCallback(tip, f, lay) ==
  IF tip.id = 0 \/ tip.id # f.tip THEN tip
  ELSE LET shown == tip.display = "block"
           width == IF shown THEN lay.tw ELSE 0
           height == IF shown THEN lay.th ELSE 0
           right == IF shown THEN tip.left + width ELSE 0
           bottom == IF shown THEN tip.top + height ELSE 0
       IN [tip EXCEPT
             !.left = IF right > lay.vw - 10 THEN f.x - width - 15 ELSE tip.left,
             !.top = IF bottom > lay.vh - 10 THEN f.y - height - 15 ELSE tip.top]

\* showCopyNotification (261-300): a new element in the document, shown until
\* its timers fire (the preview text it carries is not kept)
ShowCopyNotification(ts, text) ==
  Append(ts, [stage |-> "shown"])

\* ------------------------------------------------- event handlers (305-367)

EventTypes == {"keydown", "keyup", "mousemove", "contextmenu"}

\* the default tooltip formatter (67-81); the three pictographs are one
\* character each
FormatTooltip(info) ==
  LET r1 == IF Truthy(info.filePath)
            THEN <<"<folder>", " ">> \o info.filePath.v
                 \o (IF Truthy(info.lineNumber) THEN <<":">> \o info.lineNumber.v
                     ELSE <<>>)
                 \o <<"\n">>
            ELSE <<>>
      r2 == IF Truthy(info.componentName)
            THEN r1 \o <<"<atom>", " ">> \o info.componentName.v \o <<"\n">>
            ELSE r1
  IN r2 \o <<"<label>", " ">>
        \o (IF Len(info.className) > 60
            THEN SubSeq(info.className, 1, 60) \o <<".", ".", ".">>
            ELSE info.className)

\* the text of line 340; a formatter the caller supplies is some function of info
TooltipText(cfg, info) ==
  <<"[Ctrl+", "<right-click: copy>", "]", "\n">>
  \o (IF cfg.formatTooltip = "default" THEN FormatTooltip(info)
      ELSE <<cfg.formatTooltip>> \o info.className)

\* config.formatCopyText(info)
CopyText(cfg, info) ==
  IF cfg.formatCopyText = "default" THEN FormatCopyText(info)
  ELSE <<cfg.formatCopyText>> \o info.className

\* keyDownHandler (308-312) of closure c
KeyDownHandler(c, e, pg) ==
  IF e.key = "Control" THEN [pg EXCEPT !.ctrl[c] = TRUE] ELSE pg

\* keyUpHandler without the hideTooltip() of line 317
KeyUpHandler_NoHide(c, e, pg) ==
  IF e.key = "Control" THEN [pg EXCEPT !.ctrl[c] = FALSE] ELSE pg

\* keyUpHandler (314-319) of closure c
KeyUpHandler(c, e, pg) ==
  IF e.key = "Control"
  THEN [pg EXCEPT !.ctrl[c] = FALSE, !.tip = HideTooltip(pg.tip)]
  ELSE pg

\* mouseMoveHandler (321-341) of closure c; e.target is 0 (null) or an index of dom
MouseMoveHandler(c, e, pg) ==
  IF ~isActive \/ ~pg.ctrl[c] THEN [pg EXCEPT !.tip = HideTooltip(pg.tip)]
  ELSE IF e.target = 0 THEN [pg EXCEPT !.tip = HideTooltip(pg.tip)]
  ELSE LET info == GetElementInfo(dom[e.target])
       IN IF info.isNull THEN [pg EXCEPT !.tip = HideTooltip(pg.tip)]
          ELSE ShowTooltip(pg, e, TooltipText(config, info))

\* contextMenuHandler without the ctrlPressed test of line 344
ContextMenuHandler_NoModifier(c, e, pg) ==
  IF ~isActive THEN pg
  ELSE IF e.target = 0 THEN pg
  ELSE LET info == GetElementInfo(dom[e.target])
       IN IF info.isNull THEN pg
          ELSE [pg EXCEPT !.prevented = TRUE,
                          !.writes = Append(pg.writes, CopyText(config, info))]

\* contextMenuHandler (343-361) of closure c
ContextMenuHandler(c, e, pg) ==
  IF ~isActive \/ ~pg.ctrl[c] THEN pg
  ELSE IF e.target = 0 THEN pg
  ELSE LET info == GetElementInfo(dom[e.target])
       IN IF info.isNull THEN pg
          ELSE [pg EXCEPT !.prevented = TRUE,
                          !.writes = Append(pg.writes, CopyText(config, info))]

Handle(type, c, e, pg) ==
  CASE type = "keydown" -> KeyDownHandler(c, e, pg)
    [] type = "keyup" -> KeyUpHandler(c, e, pg)
    [] type = "mousemove" -> MouseMoveHandler(c, e, pg)
    [] OTHER -> ContextMenuHandler(c, e, pg)

RECURSIVE DispatchTo(_, _, _, _)
\* the document calls the listeners of an event in the order they were added
DispatchTo(ls, type, e, pg) ==
  IF ls = <<>> THEN pg
  ELSE DispatchTo(Tail(ls), type, e, Handle(type, Head(ls), e, pg))

\* the page after the document dispatches e
Dispatch(type, e) ==
  DispatchTo(listeners[type], type, e,
             [ctrl |-> ctrlPressed, tip |-> tooltip, frames |-> frames,
              writes |-> writes, prevented |-> FALSE])

\* ------------------------------------------------- lifecycle (387-494)

GlobalNames == {"toggleDevDebug", "enableDevDebug", "disableDevDebug"}

\* a closure no listener list holds; attachEventListeners creates one per call
FreeClosures == {c \in 1..MaxClosures : \A t \in EventTypes :
                   \A k \in 1..Len(listeners[t]) : listeners[t][k] # c}

\* attachEventListeners with the modifier flag kept outside the call, so that
\* a new call finds it as the last one left it
AttachEventListeners_SharedFlag ==
  /\ FreeClosures # {}
  /\ LET c == CHOOSE x \in FreeClosures : \A y \in FreeClosures : x <= y
     IN /\ ctrlPressed' = ctrlPressed
        /\ handlers' = [t \in EventTypes |-> c]
        /\ listeners' = [t \in EventTypes |-> Append(listeners[t], c)]

\* attachEventListeners (305-367)
AttachEventListeners ==
  /\ FreeClosures # {}
  /\ LET c == CHOOSE x \in FreeClosures : \A y \in FreeClosures : x <= y
     IN /\ ctrlPressed' = [ctrlPressed EXCEPT ![c] = FALSE]
        /\ handlers' = [t \in EventTypes |-> c]
        /\ listeners' = [t \in EventTypes |-> Append(listeners[t], c)]

\* removeEventListener(type, h)
RemoveListener(ls, h) == SelectSeq(ls, LAMBDA x : x # h)

\* detachEventListeners leaving the mousemove listener registered
DetachEventListeners_KeepMouse ==
  /\ listeners' = [t \in EventTypes |->
                     IF handlers[t] # 0 /\ t # "mousemove"
                     THEN RemoveListener(listeners[t], handlers[t])
                     ELSE listeners[t]]
  /\ tooltip' = NoTooltip
  /\ body' = body \ {tooltip.id}

\* detachEventListeners forgetting the element without tooltip.remove()
DetachEventListeners_KeepElement ==
  /\ listeners' = [t \in EventTypes |->
                     IF handlers[t] # 0 THEN RemoveListener(listeners[t], handlers[t])
                     ELSE listeners[t]]
  /\ tooltip' = NoTooltip
  /\ body' = body

\* detachEventListeners (372-382)
DetachEventListeners ==
  /\ listeners' = [t \in EventTypes |->
                     IF handlers[t] # 0 THEN RemoveListener(listeners[t], handlers[t])
                     ELSE listeners[t]]
  /\ tooltip' = NoTooltip
  /\ body' = body \ {tooltip.id}

\* setDebugEnabled (394-411)
SetDebugEnabled(enabled) ==
  /\ localStorage' = [localStorage EXCEPT ![config.storageKey] = BoolToString(enabled)]
  /\ isActive' = enabled
  /\ tooltip' = IF enabled THEN tooltip ELSE HideTooltip(tooltip)
  /\ UNCHANGED <<isInitialized, config, body, handlers, listeners, ctrlPressed, globals>>

\* toggleDebugMode negating the in-memory flag instead of the persisted one
ToggleDebugMode_FromActive(newState) ==
  /\ newState = ~isActive
  /\ SetDebugEnabled(newState)

\* toggleDebugMode (416-420); newState is what it returns
ToggleDebugMode(newState) ==
  /\ newState = ~IsDebugEnabled
  /\ SetDebugEnabled(newState)

\* initDevDebugHelper leaving isActive alone instead of reading the persisted flag
InitDevDebugHelper_NoRead(userConfig, log) ==
  IF isInitialized
  THEN /\ log = "warn: already initialized"
       /\ UNCHANGED <<session, localStorage>>
  ELSE LET merged == MergeConfig(userConfig)
       IN /\ config' = merged
          /\ IF merged.devOnly /\ hostname \notin merged.allowedHosts
             THEN /\ log = "log: disabled in production"
                  /\ UNCHANGED <<isInitialized, isActive, tooltip, body, handlers, listeners,
                                 ctrlPressed, globals, localStorage>>
             ELSE /\ log = "log: helper ready"
                  /\ isInitialized' = TRUE
                  /\ AttachEventListeners
                  /\ globals' = globals \cup GlobalNames
                  /\ UNCHANGED <<isActive, tooltip, body, localStorage>>

\* initDevDebugHelper merging the configuration before the isInitialized guard
InitDevDebugHelper_MergeFirst(userConfig, log) ==
  LET merged == MergeConfig(userConfig)
  IN /\ config' = merged
     /\ IF isInitialized
        THEN /\ log = "warn: already initialized"
             /\ UNCHANGED <<isInitialized, isActive, tooltip, body, handlers, listeners,
                            ctrlPressed, globals, localStorage>>
        ELSE IF merged.devOnly /\ hostname \notin merged.allowedHosts
             THEN /\ log = "log: disabled in production"
                  /\ UNCHANGED <<isInitialized, isActive, tooltip, body, handlers, listeners,
                                 ctrlPressed, globals, localStorage>>
             ELSE /\ log = "log: helper ready"
                  /\ isInitialized' = TRUE
                  /\ isActive' = IsDebugEnabledIn(localStorage, merged)
                  /\ AttachEventListeners
                  /\ globals' = globals \cup GlobalNames
                  /\ UNCHANGED <<tooltip, body, localStorage>>

\* initDevDebugHelper setting isInitialized before the host check
InitDevDebugHelper_MarkFirst(userConfig, log) ==
  IF isInitialized
  THEN /\ log = "warn: already initialized"
       /\ UNCHANGED <<session, localStorage>>
  ELSE LET merged == MergeConfig(userConfig)
       IN /\ config' = merged
          /\ isInitialized' = TRUE
          /\ IF merged.devOnly /\ hostname \notin merged.allowedHosts
             THEN /\ log = "log: disabled in production"
                  /\ UNCHANGED <<isActive, tooltip, body, handlers, listeners,
                                 ctrlPressed, globals, localStorage>>
             ELSE /\ log = "log: helper ready"
                  /\ isActive' = IsDebugEnabledIn(localStorage, merged)
                  /\ AttachEventListeners
                  /\ globals' = globals \cup GlobalNames
                  /\ UNCHANGED <<tooltip, body, localStorage>>

\* initDevDebugHelper (425-477); log is the console message it ends with
InitDevDebugHelper(userConfig, log) ==
  IF isInitialized
  THEN /\ log = "warn: already initialized"
       /\ UNCHANGED <<session, localStorage>>
  ELSE LET merged == MergeConfig(userConfig)
       IN /\ config' = merged
          /\ IF merged.devOnly /\ hostname \notin merged.allowedHosts
             THEN /\ log = "log: disabled in production"
                  /\ UNCHANGED <<isInitialized, isActive, tooltip, body, handlers, listeners,
                                 ctrlPressed, globals, localStorage>>
             ELSE /\ log = "log: helper ready"
                  /\ isInitialized' = TRUE
                  /\ isActive' = IsDebugEnabledIn(localStorage, merged)
                  /\ AttachEventListeners
                  /\ globals' = globals \cup GlobalNames
                  /\ UNCHANGED <<tooltip, body, localStorage>>

\* destroyDevDebugHelper also removing the persisted entry
DestroyDevDebugHelper_ClearsFlag(log) ==
  IF ~isInitialized
  THEN /\ log = "void"
       /\ UNCHANGED <<session, localStorage>>
  ELSE /\ log = "log: helper removed"
       /\ DetachEventListeners
       /\ isInitialized' = FALSE
       /\ isActive' = FALSE
       /\ globals' = globals \ GlobalNames
       /\ localStorage' = [localStorage EXCEPT ![config.storageKey] = Absent]
       /\ UNCHANGED <<config, handlers, ctrlPressed>>

\* destroyDevDebugHelper (482-494); log is the console message it ends with
DestroyDevDebugHelper(log) ==
  IF ~isInitialized
  THEN /\ log = "void"
       /\ UNCHANGED <<session, localStorage>>
  ELSE /\ log = "log: helper removed"
       /\ DetachEventListeners
       /\ isInitialized' = FALSE
       /\ isActive' = FALSE
       /\ globals' = globals \ GlobalNames
       /\ UNCHANGED <<config, handlers, ctrlPressed, localStorage>>

\* what init and destroy can write to the console
Logs == {"warn: already initialized", "log: disabled in production",
         "log: helper ready", "log: helper removed", "void"}

\* ------------------------------------------------------------ history

\* What the operation op returned (r), whether its event's default was
\* prevented (p), and the value it set under the storage key ("keep" when it set
\* none): the entry of the key before a toggle, and before the toggle just
\* before it, are kept so that two toggles in succession can be compared.
Record(op, r, set, p) ==
  /\ lastOp' = op
  /\ ret' = r
  /\ prevented' = p
  /\ pre1' = IF op = "toggle" THEN localStorage[config.storageKey] ELSE "none"
  /\ pre2' = IF op = "toggle" THEN pre1 ELSE "none"
  /\ lastSet' = IF set # "keep" THEN set
                ELSE IF config'.storageKey # config.storageKey THEN "none"
                ELSE lastSet

\* ------------------------------------------------------------ actions

DoInit(userConfig) ==
  \E log \in Logs :
    /\ InitDevDebugHelper(userConfig, log)
    /\ UNCHANGED <<hostname, layout, dom, async, pure>>
    /\ Record("init", log, "keep", FALSE)

\* destroy taking the notifications out of the document with the tooltip
DoDestroy_RemovesToasts ==
  \E log \in Logs :
    /\ DestroyDevDebugHelper(log)
    /\ toasts' = IF isInitialized THEN <<>> ELSE toasts
    /\ UNCHANGED <<hostname, layout, dom, frames, writes, pure>>
    /\ Record("destroy", log, "keep", FALSE)

DoDestroy ==
  \E log \in Logs :
    /\ DestroyDevDebugHelper(log)
    /\ UNCHANGED <<hostname, layout, dom, async, pure>>
    /\ Record("destroy", log, "keep", FALSE)

DoSetEnabled(enabled) ==
  /\ SetDebugEnabled(enabled)
  /\ UNCHANGED <<hostname, layout, dom, async, pure>>
  /\ Record("setEnabled", "void", BoolToString(enabled), FALSE)

DoToggle ==
  \E newState \in BOOLEAN :
    /\ ToggleDebugMode(newState)
    /\ UNCHANGED <<hostname, layout, dom, async, pure>>
    /\ Record("toggle", BoolToString(newState), BoolToString(newState), FALSE)

\* the document dispatches one event to its listeners
Event(type, e) ==
  LET pg == Dispatch(type, e)
  IN /\ Len(pg.frames) <= MaxFrames
     /\ Len(pg.writes) <= MaxWrites
     /\ Len(pg.frames) + Len(pg.writes) + Len(toasts) <= MaxPending
     /\ ctrlPressed' = pg.ctrl
     /\ tooltip' = pg.tip
     /\ body' = AppendChild(body, tooltip, tooltip')
     /\ frames' = pg.frames
     /\ writes' = pg.writes
     /\ UNCHANGED <<env, isInitialized, isActive, config, handlers, listeners,
                    globals, toasts, pure>>
     /\ Record("event", "void", "keep", pg.prevented)

KeyNames == {"Control", "a"}

KeyEvent(k) == [key |-> k, target |-> 0, x |-> 0, y |-> 0]
MouseEvent(t, pt) == [key |-> "", target |-> t, x |-> pt.x, y |-> pt.y]

KeyDown == \E k \in KeyNames : Event("keydown", KeyEvent(k))

KeyUp == \E k \in KeyNames : Event("keyup", KeyEvent(k))

MouseMove ==
  \E t \in 0..Len(dom), pt \in layout.points : Event("mousemove", MouseEvent(t, pt))

ContextMenu ==
  \E t \in 0..Len(dom), pt \in layout.points : Event("contextmenu", MouseEvent(t, pt))

\* the browser runs the oldest pending animation-frame callback
RunFrame ==
  /\ frames # <<>>
  /\ tooltip' = FrameCallback(tooltip, Head(frames), layout)
  /\ frames' = Tail(frames)
  /\ UNCHANGED <<env, isInitialized, isActive, config, body, handlers, listeners,
                 ctrlPressed, globals, writes, toasts, pure>>
  /\ Record("async", "void", "keep", FALSE)

RemoveAt(q, i) == SubSeq(q, 1, i - 1) \o SubSeq(q, i + 1, Len(q))

\* the then-callback showing its notification only while the helper is initialised
ClipboardResolve_OnlyWhileInitialized ==
  \E i \in 1..Len(writes) :
    /\ Len(toasts) < MaxToasts
    /\ toasts' = IF isInitialized THEN ShowCopyNotification(toasts, writes[i])
                 ELSE toasts
    /\ writes' = RemoveAt(writes, i)
    /\ UNCHANGED <<env, session, frames, pure>>
    /\ Record("async", "resolved", "keep", FALSE)

\* a clipboard write succeeds: the then-callback of lines 356-357
ClipboardResolve ==
  \E i \in 1..Len(writes) :
    /\ Len(toasts) < MaxToasts
    /\ toasts' = ShowCopyNotification(toasts, writes[i])
    /\ writes' = RemoveAt(writes, i)
    /\ UNCHANGED <<env, session, frames, pure>>
    /\ Record("async", "resolved", "keep", FALSE)

\* a clipboard write fails: the catch-callback of lines 358-360
ClipboardReject ==
  \E i \in 1..Len(writes) :
    /\ writes' = RemoveAt(writes, i)
    /\ UNCHANGED <<env, session, frames, toasts, pure>>
    /\ Record("async", "rejected", "keep", FALSE)

\* index of the oldest notification in the given stage, 0 when there is none
OldestIn(ts, stage) ==
  LET hits == {i \in 1..Len(ts) : ts[i].stage = stage}
  IN IF hits = {} THEN 0 ELSE CHOOSE i \in hits : \A j \in hits : i <= j

\* the 2500 ms timer of lines 294-299 fires
ToastFade ==
  LET i == OldestIn(toasts, "shown")
  IN /\ i # 0
     /\ toasts' = [toasts EXCEPT ![i].stage = "fading"]
     /\ UNCHANGED <<env, session, frames, writes, pure>>
     /\ Record("async", "void", "keep", FALSE)

\* the 300 ms timer of line 298 fires
ToastRemove ==
  LET i == OldestIn(toasts, "fading")
  IN /\ i # 0
     /\ toasts' = RemoveAt(toasts, i)
     /\ UNCHANGED <<env, session, frames, writes, pure>>
     /\ Record("async", "removed", "keep", FALSE)

\* the window loses focus: no listener is registered for blur (363-366), so no
\* code of the helper runs
Blur ==
  /\ UNCHANGED <<env, session, async, pure>>
  /\ Record("blur", "void", "keep", FALSE)

\* ------------------------------------------------------------ the page

\* an element with no class, and a button React rendered from src/ui/Btn.tsx
ElBody == [className |-> Str(<<>>), tagName |-> <<"B", "O", "D", "Y">>,
           fiberKey |-> FALSE, root |-> 0, fibers |-> <<>>]

FiberHost == [hasSource |-> TRUE,
              fileName |-> Str(<<"/", "a", "/", "s", "r", "c", "/", "B", ".", "t", "s">>),
              lineNumber |-> 12, typeKind |-> "string",
              displayName |-> Undefined, name |-> Undefined, ret |-> 2]

FiberComponent == [hasSource |-> FALSE, fileName |-> Undefined, lineNumber |-> -1,
                   typeKind |-> "component", displayName |-> Undefined,
                   name |-> Str(<<"B", "t", "n">>), ret |-> 0]

ElButton == [className |-> Str(<<"b", "t", "n">>), tagName |-> <<"D", "I", "V">>,
             fiberKey |-> TRUE, root |-> 1, fibers |-> <<FiberHost, FiberComponent>>]

PageLayout == [vw |-> 100, vh |-> 100, tw |-> 30, th |-> 20,
               points |-> {[x |-> 80, y |-> 90]}]

\* the module's variables as lines 91-100 initialise them
FreshSession ==
  /\ isInitialized = FALSE
  /\ isActive = FALSE
  /\ config = DEFAULT_CONFIG
  /\ tooltip = NoTooltip
  /\ body = {}
  /\ handlers = [t \in EventTypes |-> 0]
  /\ listeners = [t \in EventTypes |-> <<>>]
  /\ ctrlPressed = [c \in 1..MaxClosures |-> FALSE]
  /\ globals = {}
  /\ frames = <<>>
  /\ writes = <<>>
  /\ toasts = <<>>
  /\ prevented = FALSE
  /\ lastOp = "start"
  /\ ret = "void"
  /\ pre1 = "none"
  /\ pre2 = "none"
  /\ lastSet = "none"

Init ==
  /\ FreshSession
  /\ localStorage \in {st \in [StorageKeys -> StorageValues] :
                         st["k2"] \in {Absent, "true"}}
  /\ hostname = "localhost"
  /\ layout = PageLayout
  /\ dom = <<ElBody, ElButton>>
  /\ arg = <<>>
  /\ out = <<>>

Next ==
  \/ \E u \in UserConfigs : DoInit(u)
  \/ DoDestroy
  \/ \E b \in BOOLEAN : DoSetEnabled(b)
  \/ DoToggle
  \/ KeyDown
  \/ KeyUp
  \/ MouseMove
  \/ ContextMenu
  \/ RunFrame
  \/ ClipboardResolve
  \/ ClipboardReject
  \/ ToastFade
  \/ ToastRemove
  \/ Blur

Spec == Init /\ [][Next]_vars

\* the timers of a notification fire once they are due (setTimeout, lines
\* 294-299): the browser's event loop leaves no due timer waiting for ever
SpecTimers == Spec /\ WF_vars(ToastFade) /\ WF_vars(ToastRemove)

\* ---------------------------------------------- the tooltip's position

\* viewports with tooltip boxes no larger than they are, and pointer positions
\* inside them
TipLayouts ==
  { [vw |-> 100, vh |-> 100, tw |-> w, th |-> h,
     points |-> {[x |-> px, y |-> py] : px \in {10, 50, 80}, py \in {10, 50, 80}}] :
      w \in {30, 60}, h \in {20, 60} }

\* a page whose stored flag is on, so that init makes the helper active
InitTip ==
  /\ FreshSession
  /\ hostname = "localhost"
  /\ layout \in TipLayouts
  /\ dom = <<ElBody, ElButton>>
  /\ localStorage = [k \in StorageKeys |->
                       IF k = DEFAULT_CONFIG.storageKey THEN "true" ELSE Absent]
  /\ arg = <<>>
  /\ out = <<>>

\* init, the modifier key, the pointer, and the frame callbacks
NextTip ==
  \/ DoInit(UserConfig({}, {}, DEFAULT_CONFIG))
  \/ KeyDown
  \/ KeyUp
  \/ MouseMove
  \/ RunFrame

SpecTip == InitTip /\ [][NextTip]_vars

\* ------------------------------------------- the functions on their own

\* the page every specification starts from
FreshPage ==
  /\ FreshSession
  /\ hostname = "localhost"
  /\ layout = PageLayout
  /\ dom = <<ElBody, ElButton>>
  /\ localStorage = [k \in StorageKeys |-> Absent]

\* one call of a function on arg, its result left in out
Call(op, result) ==
  /\ lastOp = "start"
  /\ lastOp' = op
  /\ out' = result
  /\ UNCHANGED <<env, session, async, prevented, ret, pre1, pre2, lastSet, arg>>

\* getElementInfo on elements of every kind of className, tag and fiber data

ExtractClassNames == {Undefined, Obj, Str(<<>>), Str(<<"a">>), Str(<<"a", " ", "b">>),
                      Str(<<" ">>)}

ExtractTagNames == {<<"D", "I", "V">>, <<"P">>, <<"s", "v", "g">>}

FiberPlain == [hasSource |-> FALSE, fileName |-> Undefined, lineNumber |-> -1,
               typeKind |-> "string", displayName |-> Undefined, name |-> Undefined,
               ret |-> 0]

\* the fiber data an element can carry: none, a null fiber, a well-formed chain,
\* a file name that is no string, a cycle without metadata, a self-cycle
ExtractFiberData ==
  { [fiberKey |-> FALSE, root |-> 0, fibers |-> <<FiberPlain>>],
    [fiberKey |-> TRUE, root |-> 0, fibers |-> <<FiberPlain>>],
    [fiberKey |-> TRUE, root |-> 1, fibers |-> <<FiberHost, FiberComponent>>],
    [fiberKey |-> TRUE, root |-> 1,
     fibers |-> <<[FiberHost EXCEPT !.fileName = Obj], FiberComponent>>],
    [fiberKey |-> TRUE, root |-> 1,
     fibers |-> <<[FiberPlain EXCEPT !.ret = 2], [FiberPlain EXCEPT !.ret = 1]>>],
    [fiberKey |-> TRUE, root |-> 1, fibers |-> <<[FiberHost EXCEPT !.ret = 1]>>] }

InitExtract ==
  /\ FreshPage
  /\ arg \in {[className |-> c, tagName |-> t, fiberKey |-> f.fiberKey,
               root |-> f.root, fibers |-> f.fibers] :
                c \in ExtractClassNames, t \in ExtractTagNames, f \in ExtractFiberData}
  /\ out = <<>>

CallExtract == Call("extract", GetElementInfo(arg))

SpecExtract == InitExtract /\ [][CallExtract]_vars

\* getReactSourceInfo on an element whose one fiber carries a file name

\* file names are path segments joined by "/"
MaxSegments == 4

PathSegments == {<<>>, <<"a">>, <<"s", "r", "c">>, <<"s", "r", "c", "x">>,
                 <<"x", "s", "r", "c">>}

RECURSIVE JoinSegments(_)
JoinSegments(segs) ==
  IF Len(segs) = 1 THEN segs[1]
  ELSE segs[1] \o <<"/">> \o JoinSegments(Tail(segs))

PathNames ==
  UNION {{JoinSegments(segs) : segs \in [1..k -> PathSegments]} : k \in 1..MaxSegments}

ElementWithFile(fileName) ==
  [className |-> Str(<<"a">>), tagName |-> <<"D", "I", "V">>, fiberKey |-> TRUE,
   root |-> 1,
   fibers |-> <<[FiberPlain EXCEPT !.hasSource = TRUE, !.fileName = Str(fileName),
                                   !.lineNumber = 7]>>]

InitPath ==
  /\ FreshPage
  /\ arg \in PathNames
  /\ out = <<>>

CallPath == Call("path", GetReactSourceInfo(ElementWithFile(arg)))

SpecPath == InitPath /\ [][CallPath]_vars

\* the default copy formatter on every combination of present and absent fields

FormatFilePaths == {Null, Str(<<>>), Str(<<"a", "/", "b", ".", "t", "s", "x">>)}
FormatLineNumbers == {Null, Str(<<>>), Str(<<"1", "0">>), Str(<<"0">>)}
FormatComponentNames == {Null, Str(<<>>), Str(<<"F", "o", "o">>)}
FormatClassNames == {<<"x", " ", "y">>, <<"b">>, <<"\"">>}

InitFormat ==
  /\ FreshPage
  /\ arg \in [filePath : FormatFilePaths, lineNumber : FormatLineNumbers,
              componentName : FormatComponentNames, className : FormatClassNames,
              tagName : {<<"d", "i", "v">>}, isNull : {FALSE}]
  /\ out = <<>>

CallFormat == Call("format", FormatCopyText(arg))

SpecFormat == InitFormat /\ [][CallFormat]_vars

\* getElementInfo on elements whose fiber chains vary in length, in where the
\* metadata sits, and in how they end (a null return link or a link back)

MaxChain == 3
MaxBeyond == 2

WalkSrcPath == <<"/", "p", "/", "s", "r", "c", "/", "A">>
WalkSrcPathB == <<"/", "p", "/", "s", "r", "c", "/", "B">>
WalkDirName == <<"l", "i", "b", "/">>
WalkBareName == <<"C">>

\* the kinds of fiber a short chain is made of: no metadata, a debug source, a
\* debug source whose file name ends in a slash, one without a line number, a
\* named component, a named component with a debug source, and a debug source
\* whose fileName is no string
WalkFiberKinds ==
  { FiberPlain,
    [FiberPlain EXCEPT !.hasSource = TRUE, !.fileName = Str(WalkSrcPath),
                       !.lineNumber = 1],
    [FiberPlain EXCEPT !.hasSource = TRUE, !.fileName = Str(WalkDirName),
                       !.lineNumber = 2],
    [FiberPlain EXCEPT !.hasSource = TRUE, !.fileName = Str(WalkBareName)],
    [FiberPlain EXCEPT !.typeKind = "component", !.name = Str(<<"F">>)],
    [FiberPlain EXCEPT !.typeKind = "component", !.name = Str(<<"G">>),
                       !.hasSource = TRUE, !.fileName = Str(WalkSrcPathB),
                       !.lineNumber = 3],
    [FiberPlain EXCEPT !.hasSource = TRUE, !.fileName = Obj, !.lineNumber = 4] }

\* fiber.return of the i-th of n fibers: the next one, and tail after the last
Linked(kinds, tail) ==
  [i \in 1..Len(kinds) |->
     [kinds[i] EXCEPT !.ret = IF i < Len(kinds) THEN i + 1 ELSE tail]]

WalkElement(fibers) ==
  [className |-> Str(<<"a">>), tagName |-> <<"D", "I", "V">>, fiberKey |-> TRUE,
   root |-> 1, fibers |-> fibers]

ShortChains ==
  { [element |-> WalkElement(Linked(k, tail)), family |-> "short",
     len |-> Len(k), src |-> 0, comp |-> 0, cyclic |-> tail # 0] :
      k \in UNION { [1..n -> WalkFiberKinds] : n \in 1..MaxChain },
      tail \in {0, 1} }

\* a chain of len plain fibers with a debug source on the src-th and a named
\* component type on the comp-th (0: on none)
LongKinds(len, src, comp) ==
  [i \in 1..len |->
     [FiberPlain EXCEPT
        !.hasSource = (i = src),
        !.fileName = IF i = src THEN Str(WalkSrcPath) ELSE Undefined,
        !.lineNumber = IF i = src THEN i ELSE -1,
        !.typeKind = IF i = comp THEN "component" ELSE "string",
        !.name = IF i = comp THEN Str(<<"F">>) ELSE Undefined]]

LongChains ==
  { [element |-> WalkElement(Linked(LongKinds(n, s, c), IF cyc THEN 1 ELSE 0)),
     family |-> "long", len |-> n, src |-> s, comp |-> c, cyclic |-> cyc] :
      n \in (MaxDepth - 1)..(MaxDepth + MaxBeyond),
      s \in {0, 1, MaxDepth - 1, MaxDepth, MaxDepth + 1, MaxDepth + MaxBeyond},
      c \in {0, 1, MaxDepth - 1, MaxDepth, MaxDepth + 1, MaxDepth + MaxBeyond},
      cyc \in BOOLEAN }

InitWalk ==
  /\ FreshPage
  /\ arg \in ShortChains \cup { a \in LongChains : a.src <= a.len /\ a.comp <= a.len }
  /\ out = <<>>

\* the number of fibers the loop of getReactSourceInfo runs its body on
Examined(element) ==
  IF ~element.fiberKey \/ element.root = 0 THEN 0
  ELSE WalkFrom(element.fibers, element.root, MaxDepth,
                [filePath |-> Null, lineNumber |-> Null, componentName |-> Null],
                0).examined

CallWalk ==
  Call("walk", [info |-> GetElementInfo(arg.element),
                examined |-> Examined(arg.element)])

SpecWalk == InitWalk /\ [][CallWalk]_vars

\* ------------------------------------------------------------ claims

\* the tooltip element is in the document and displayed
TooltipDisplayed == tooltip.id # 0 /\ tooltip.display = "block"

\* the closures whose handlers the document would call
RegisteredClosures ==
  {c \in 1..MaxClosures : \E t \in EventTypes :
     \E k \in 1..Len(listeners[t]) : listeners[t][k] = c}

\* modifierHeld: the ctrlPressed of the registered handlers
ModifierHeld == \E c \in RegisteredClosures : ctrlPressed[c]

\* C1: in every reachable state a displayed tooltip implies that active is true
\* and the modifier is held; so the states a key-up of the modifier and a
\* setEnabled(false) produce have the tooltip hidden.
C1_TooltipOnlyWhenActiveAndHeld ==
  TooltipDisplayed => (isActive /\ ModifierHeld)

C1_Witness == TooltipDisplayed /\ isActive /\ ModifierHeld

\* C2 as stated: after two toggles in succession the second returned the enabled
\* state read before the first, and the persisted entry is exactly what it was
\* before the first.
C2_Original ==
  (lastOp = "toggle" /\ pre2 # "none")
    => /\ ret = BoolToString(pre2 = "true")
       /\ localStorage[config.storageKey] = pre2

\* C2 amended: after two toggles in succession the second returned the enabled
\* state read before the first, and the persisted entry is the string of that
\* state: it is what it was before only if it was "true" or "false".
C2_TwoTogglesRestoreEnabledState ==
  (lastOp = "toggle" /\ pre2 # "none")
    => /\ ret = BoolToString(pre2 = "true")
       /\ localStorage[config.storageKey] = BoolToString(pre2 = "true")
       /\ (pre2 \in {"true", "false"} => localStorage[config.storageKey] = pre2)

C2_Witness == lastOp = "toggle" /\ pre2 = Absent /\ ret = "false"

\* C3: while the configured storage key stays the same, isEnabled() returns the
\* value most recently set by setEnabled or returned by toggle, whatever other
\* operations follow; and only setEnabled and toggle write the storage.
C3_IsEnabledReturnsLastSet ==
  /\ [](lastSet # "none" => BoolToString(IsDebugEnabled) = lastSet)
  /\ [][localStorage' # localStorage => lastOp' \in {"setEnabled", "toggle"}]_vars

C3_Witness ==
  lastSet = "true" /\ lastOp = "destroy" /\ ret = "log: helper removed" /\ IsDebugEnabled

\* C4 as stated: after every completed init, destroy, setEnabled and toggle the
\* active flag equals what isEnabled() returns.
C4_Original ==
  lastOp \in {"init", "destroy", "setEnabled", "toggle"} => isActive = IsDebugEnabled

\* C4 amended: active equals what isEnabled() returns after every completed
\* setEnabled and toggle and after every init that leaves the session
\* initialized; after a destroy of an initialized session active is false
\* whatever the persisted flag is.
C4_ActiveMirrorsPersistedAfterSetOrInit ==
  /\ (lastOp \in {"setEnabled", "toggle"} \/ (lastOp = "init" /\ isInitialized))
       => isActive = IsDebugEnabled
  /\ (lastOp = "destroy" /\ ret = "log: helper removed") => ~isActive

C4_Witness ==
  lastOp = "init" /\ ret = "log: helper ready" /\ isActive /\ IsDebugEnabled

\* C5: an init of an initialized session and a destroy of a session that is not
\* initialized change nothing: configuration, flags, tooltip, globals, listeners,
\* storage and pending callbacks are as before, and each event still has exactly
\* one handler (none when not initialized).
C5_RepeatedInitAndIdleDestroyChangeNothing ==
  [][((lastOp' = "init" /\ isInitialized) \/ (lastOp' = "destroy" /\ ~isInitialized))
       => /\ UNCHANGED <<session, env, async>>
          /\ \A t \in EventTypes :
               Len(listeners'[t]) = IF isInitialized THEN 1 ELSE 0]_vars

C5_Witness ==
  lastOp = "init" /\ ret = "warn: already initialized" /\ config # DEFAULT_CONFIG

\* C6 as stated: an init rejected by the host check changes nothing, the
\* configuration included.
C6_Original ==
  [][(lastOp' = "init" /\ ret' = "log: disabled in production")
       => UNCHANGED <<session, env, async>>]_vars

\* C6 amended: an init rejected by the host check leaves initialized false,
\* attaches no listener, exposes no global and leaves every other piece of
\* session state as it was, except the configuration: that is replaced by the
\* merge of the defaults and the caller's overrides, storage key included.
C6_RejectedInitChangesOnlyConfig ==
  [][(lastOp' = "init" /\ ret' = "log: disabled in production")
       => /\ UNCHANGED <<isInitialized, isActive, tooltip, body, handlers, listeners,
                         ctrlPressed, globals, env, async>>
          /\ ~isInitialized'
          /\ \E u \in UserConfigs : config' = MergeConfig(u)
          /\ config'.devOnly /\ hostname \notin config'.allowedHosts]_vars

C6_Witness ==
  /\ lastOp = "init" /\ ret = "log: disabled in production"
  /\ ~isInitialized /\ config.storageKey # DEFAULT_CONFIG.storageKey

\* C7: a destroy of an initialized session leaves initialized and active false,
\* no tooltip element and no global toggle; and while the session is not
\* initialized a key-down, key-up, pointer-move or context-menu event changes
\* nothing: no tooltip, no suppressed default, no clipboard write.
C7_DestroyedSessionIsInert ==
  /\ []((lastOp = "destroy" /\ ret = "log: helper removed")
          => (~isInitialized /\ ~isActive /\ tooltip.id = 0
              /\ globals \cap GlobalNames = {}))
  /\ [][(~isInitialized /\ lastOp' = "event")
          => (UNCHANGED <<session, env, async>> /\ ~prevented')]_vars

\* an event arrives after a destroy, with active set again and the modifier
\* flag of the removed handlers still true
C7_Witness ==
  /\ ~isInitialized /\ lastOp = "event" /\ isActive
  /\ handlers["mousemove"] # 0 /\ ctrlPressed[handlers["mousemove"]]

\* the lower-case form of each tag name of ExtractTagNames
LowerOf(tag) == CASE tag = <<"D", "I", "V">> -> <<"d", "i", "v">>
                  [] tag = <<"P">> -> <<"p">>
                  [] OTHER -> <<"s", "v", "g">>

\* C8: extract returns null exactly when the element's className is not a
\* non-empty string; otherwise its className is that string verbatim and its
\* tagName the lower-cased tag name, whatever fiber data the element carries.
C8_ExtractNullIffNoClass ==
  lastOp = "extract" =>
    LET hasClass == arg.className.t = "string" /\ arg.className.v # <<>>
    IN /\ out.isNull <=> ~hasClass
       /\ hasClass => /\ out.className = arg.className.v
                      /\ out.tagName = LowerOf(arg.tagName)

\* an element with a class, no fiber and an upper-case tag name
C8_Witness ==
  /\ lastOp = "extract" /\ ~out.isNull /\ ~arg.fiberKey
  /\ arg.tagName = <<"D", "I", "V">> /\ out.tagName = <<"d", "i", "v">>

\* "/src/" starts at the 1-based position i of s
SrcSegmentAt(s, i) ==
  i + 4 <= Len(s) /\ SubSeq(s, i, i + 4) = <<"/", "s", "r", "c", "/">>

\* C9: for a file name with a /src/ segment the reported filePath is the rest of
\* the name from the "src/" of the first such segment on; for a name without one
\* it is the text after the last "/", the whole name when it has no "/".
C9_PathFromSrcOrBareName ==
  (lastOp = "path" /\ arg # <<>>) =>
    /\ out.filePath.t = "string"
    /\ LET p == out.filePath.v
           n == Len(arg)
       IN IF \E i \in 1..n : SrcSegmentAt(arg, i)
          THEN \E i \in 1..n :
                 /\ SrcSegmentAt(arg, i)
                 /\ \A j \in 1..(i - 1) : ~SrcSegmentAt(arg, j)
                 /\ p = SubSeq(arg, i + 1, n)
          ELSE /\ \A k \in 1..Len(p) : p[k] # "/"
               /\ \E k \in 0..n : /\ p = SubSeq(arg, k + 1, n)
                                  /\ (k = 0 \/ arg[k] = "/")

\* a name with directories before its /src/ segment
C9_Witness ==
  /\ lastOp = "path"
  /\ \E i \in 2..Len(arg) : SrcSegmentAt(arg, i)
  /\ out.filePath.t = "string" /\ Len(out.filePath.v) > 4

\* a field of ElementInfo that is neither null nor empty
Present(x) == x # Null /\ x # Str(<<>>)

\* C10: the default copy text is a line "// <filePath>" with ":<lineNumber>"
\* appended when lineNumber is present, only when filePath is present; a line
\* "// Component: <componentName>" only when componentName is present; and
\* className="<className>" with no newline after it.  For a/b.tsx, 10, Foo and
\* "x y" it is exactly the three lines of the example.
C10_DefaultCopyText ==
  lastOp = "format" =>
    /\ out = (IF Present(arg.filePath)
              THEN <<"/", "/", " ">> \o arg.filePath.v
                   \o (IF Present(arg.lineNumber) THEN <<":">> \o arg.lineNumber.v
                       ELSE <<>>) \o <<"\n">>
              ELSE <<>>)
             \o (IF Present(arg.componentName)
                 THEN <<"/", "/", " ", "C", "o", "m", "p", "o", "n", "e", "n", "t",
                        ":", " ">> \o arg.componentName.v \o <<"\n">>
                 ELSE <<>>)
             \o <<"c", "l", "a", "s", "s", "N", "a", "m", "e", "=", "\"">>
             \o arg.className \o <<"\"">>
    /\ (/\ arg.filePath = Str(<<"a", "/", "b", ".", "t", "s", "x">>)
        /\ arg.lineNumber = Str(<<"1", "0">>)
        /\ arg.componentName = Str(<<"F", "o", "o">>)
        /\ arg.className = <<"x", " ", "y">>)
       => out = <<"/", "/", " ", "a", "/", "b", ".", "t", "s", "x", ":", "1", "0", "\n",
                  "/", "/", " ", "C", "o", "m", "p", "o", "n", "e", "n", "t", ":", " ",
                  "F", "o", "o", "\n",
                  "c", "l", "a", "s", "s", "N", "a", "m", "e", "=", "\"", "x", " ", "y",
                  "\"">>

\* the example of the claim
C10_Witness ==
  /\ lastOp = "format"
  /\ arg.filePath = Str(<<"a", "/", "b", ".", "t", "s", "x">>)
  /\ arg.lineNumber = Str(<<"1", "0">>)
  /\ arg.componentName = Str(<<"F", "o", "o">>)
  /\ arg.className = <<"x", " ", "y">>
  /\ Len(out) = 47


\* ---------------------------------------------------------------------------
\* The walk up the fiber chain, under SpecWalk

RECURSIVE FiberAt(_, _, _)
\* the k-th fiber on the way up from fiber (0 when the chain has ended)
FiberAt(fibers, fiber, k) ==
  IF k = 1 \/ fiber = 0 THEN fiber ELSE FiberAt(fibers, fibers[fiber].ret, k - 1)

\* the fibers the walk can look at, in order, as fiber records
WalkPath(element) ==
  LET ids == [k \in 1..MaxDepth |-> FiberAt(element.fibers, element.root, k)]
  IN [k \in { n \in 1..MaxDepth : ids[n] # 0 } |-> element.fibers[ids[k]]]

HasFileName(fiber) == fiber.hasSource /\ Truthy(fiber.fileName)

TypeName(fiber) ==
  IF Truthy(fiber.displayName) THEN fiber.displayName ELSE fiber.name

IsNamedComponent(fiber) == fiber.typeKind = "component" /\ Truthy(TypeName(fiber))

\* the least position of the path whose fiber satisfies P, 0 if there is none
FirstOnPath(path, P(_)) ==
  IF \E k \in DOMAIN path : P(path[k])
  THEN CHOOSE k \in DOMAIN path : P(path[k]) /\ \A j \in DOMAIN path : j < k => ~P(path[j])
  ELSE 0

WellFormed(path) == \A k \in DOMAIN path : path[k].fileName.t # "object"

\* C11: the file path and line number that extract reports come from the first
\* instance on the walk that has a debug source with a file name, and the
\* component name from the first instance whose type is a named component; a
\* later ancestor's debug source never replaces the nearer one.
C11_Original ==
  (lastOp = "walk" /\ WellFormed(WalkPath(arg.element))) =>
    LET path == WalkPath(arg.element)
        s == FirstOnPath(path, HasFileName)
        c == FirstOnPath(path, IsNamedComponent)
    IN /\ out.info.filePath =
            IF s = 0 THEN Null ELSE OrNull(Str(NormalizePath(path[s].fileName.v)))
       /\ out.info.lineNumber =
            IF s = 0 \/ path[s].lineNumber = -1 THEN Null
            ELSE Str(NumToString(path[s].lineNumber))
       /\ out.info.componentName = IF c = 0 THEN Null ELSE TypeName(path[c])

\* the component-name half of C11 alone
C11_ComponentNameFromFirstNamed ==
  (lastOp = "walk" /\ WellFormed(WalkPath(arg.element))) =>
    LET path == WalkPath(arg.element)
        c == FirstOnPath(path, IsNamedComponent)
    IN out.info.componentName = IF c = 0 THEN Null ELSE TypeName(path[c])

Max(a, b) == IF a >= b THEN a ELSE b

Min(a, b) == IF a <= b THEN a ELSE b

\* C12: the walk ends on every chain, cyclic ones and ones longer than the bound
\* included: it examines at most 20 instances, stops as soon as both a file path
\* and a component name are found, and reports as null the metadata that sits
\* only on instances beyond the bound.
C12_WalkBoundedAndStopsEarly ==
  lastOp = "walk" =>
    LET path == WalkPath(arg.element)
        n == out.examined
        both == out.info.filePath # Null /\ out.info.componentName # Null
    IN /\ n <= MaxDepth
       /\ n <= Cardinality(DOMAIN path)
       /\ WellFormed(path) =>
            /\ n < Cardinality(DOMAIN path) => both
            /\ both => HasFileName(path[n]) \/ IsNamedComponent(path[n])
       /\ arg.family = "long" =>
            /\ n = IF arg.src \in 1..MaxDepth /\ arg.comp \in 1..MaxDepth
                   THEN Max(arg.src, arg.comp)
                   ELSE IF arg.cyclic THEN MaxDepth ELSE Min(arg.len, MaxDepth)
            /\ out.info.filePath =
                 IF arg.src \in 1..MaxDepth THEN Str(<<"s", "r", "c", "/", "A">>)
                 ELSE Null
            /\ out.info.lineNumber =
                 IF arg.src \in 1..MaxDepth THEN Str(NumToString(arg.src)) ELSE Null
            /\ out.info.componentName =
                 IF arg.comp \in 1..MaxDepth THEN Str(<<"F">>) ELSE Null

\* a cyclic chain longer than the bound with its only debug source beyond it
C12_Witness ==
  /\ lastOp = "walk"
  /\ arg.family = "long" /\ arg.cyclic
  /\ arg.len > MaxDepth /\ arg.src > MaxDepth /\ arg.comp = 0
  /\ out.examined = MaxDepth
  /\ out.info.filePath = Null

\* the positions of the path whose debug source has the given path and line
SuppliedBy(path, filePath, lineNumber) ==
  { k \in DOMAIN path :
      /\ HasFileName(path[k]) /\ path[k].fileName.t = "string"
      /\ Str(NormalizePath(path[k].fileName.v)) = filePath
      /\ path[k].lineNumber # -1
      /\ Str(NumToString(path[k].lineNumber)) = lineNumber }

\* C20: in every ElementInfo that extract returns, whatever the chain and the
\* file names (names ending in a slash included), lineNumber is non-null only if
\* filePath is non-null, and when both are present they come from the debug
\* source of one and the same instance.
C20_Original ==
  (lastOp = "walk" /\ ~out.info.isNull) =>
    /\ out.info.lineNumber # Null => out.info.filePath # Null
    /\ (out.info.lineNumber # Null /\ out.info.filePath # Null) =>
         SuppliedBy(WalkPath(arg.element), out.info.filePath,
                    out.info.lineNumber) # {}

\* the second half of C20 alone
C20_PathAndLineFromOneInstance ==
  (lastOp = "walk" /\ ~out.info.isNull
     /\ out.info.lineNumber # Null /\ out.info.filePath # Null) =>
    SuppliedBy(WalkPath(arg.element), out.info.filePath, out.info.lineNumber) # {}

\* ---------------------------------------------------------------------------
\* The modifier flag and the window's focus, under Spec

\* C15: the modifier-held flag is reset to false when the window loses focus as
\* well as on key-up, so that after a blur following a key-down the pointer
\* shows no tooltip and starts no copy until the next key-down.
C15_Original == lastOp = "blur" => ~ModifierHeld

\* ---------------------------------------------------------------------------
\* Copying by right-click, under Spec

\* C13: a context-menu event has its default action suppressed and starts
\* exactly one clipboard write, of the copy formatter's text for the target, if
\* and only if active is true, the modifier is held and extraction of the target
\* is non-null; otherwise the default action is left alone and no write starts.
\* Writes grow only so: none is started again after it has settled.
C13_CopyIffActiveHeldAndExtracted ==
  [][
      /\ \A t \in 0..Len(dom), pt \in layout.points :
           Event("contextmenu", MouseEvent(t, pt)) =>
             IF isActive /\ ModifierHeld /\ t # 0 /\ ~GetElementInfo(dom[t]).isNull
             THEN /\ prevented'
                  /\ writes' = Append(writes, CopyText(config, GetElementInfo(dom[t])))
             ELSE /\ ~prevented'
                  /\ writes' = writes
      /\ Len(writes') > Len(writes) =>
           /\ lastOp' = "event" /\ prevented'
           /\ Len(writes') = Len(writes) + 1
           /\ SubSeq(writes', 1, Len(writes)) = writes
    ]_vars

\* a right-click on an element with a class has just started a write
C13_Witness ==
  /\ lastOp = "event" /\ prevented
  /\ isActive /\ ModifierHeld
  /\ writes # <<>>
  /\ writes[Len(writes)] = CopyText(config, GetElementInfo(dom[2]))

FadingFirst(ts) ==
  \A i, j \in 1..Len(ts) : (i < j /\ ts[j].stage = "fading") => ts[i].stage = "fading"

\* C17: every notification added to the document is eventually removed from it,
\* after its 2.5 s timer and then its 0.3 s timer; no operation, destroy and
\* setEnabled(false) included, cancels or shortens that; every successful copy
\* adds a notification of its own, so several can be in the document at once;
\* and the notifications in the document are as many as the successful copies
\* whose removal timer has not fired yet.
C17_NotificationsLiveUntilTimers ==
  /\ [][
         /\ FadingFirst(toasts)
         /\ toasts' # toasts =>
              /\ lastOp' = "async"
              /\ \/ ret' = "resolved" /\ toasts' = Append(toasts, [stage |-> "shown"])
                 \/ /\ ret' = "void"
                    /\ \E i \in 1..Len(toasts) :
                         /\ toasts[i].stage = "shown"
                         /\ toasts' = [toasts EXCEPT ![i].stage = "fading"]
                 \/ /\ ret' = "removed"
                    /\ toasts[1].stage = "fading"
                    /\ toasts' = Tail(toasts)
         /\ (lastOp' = "async" /\ ret' = "resolved") => Len(toasts') = Len(toasts) + 1
         /\ (lastOp' = "async" /\ ret' = "removed") => Len(toasts') = Len(toasts) - 1
     ]_vars
  /\ [](toasts # <<>> => <>(lastOp = "async" /\ ret = "removed"))

\* two notifications in the document of a destroyed helper
C17_Witness ==
  /\ Len(toasts) >= 2
  /\ ~isInitialized /\ lastOp = "destroy" /\ ret = "log: helper removed"

\* ---------------------------------------------------------------------------
\* The tooltip element and the document, under Spec

\* C18: in every reachable state the document holds at most one tooltip element.
\* It is created only by the first showTooltip after a successful init, later
\* calls reuse it, hideTooltip never creates one (it does nothing when there is
\* none and is idempotent otherwise), and it exists only while initialized.
C18_AtMostOneTooltipElement ==
  [][
      /\ Cardinality(body) <= 1
      /\ body = IF tooltip.id = 0 THEN {} ELSE {tooltip.id}
      /\ body # {} => isInitialized
      /\ ~(body' \subseteq body) =>
           /\ body = {}
           /\ isInitialized /\ lastOp' = "event"
           /\ body' = {tooltip'.id} /\ tooltip'.display = "block"
      /\ (tooltip.id # 0 /\ tooltip'.id # 0) => tooltip'.id = tooltip.id
      /\ HideTooltip(NoTooltip) = NoTooltip
      /\ HideTooltip(tooltip).id = tooltip.id
      /\ HideTooltip(HideTooltip(tooltip)) = HideTooltip(tooltip)
    ]_vars

\* the one element, in the document and shown by a pointer move
C18_Witness ==
  /\ lastOp = "event" /\ isInitialized
  /\ TooltipDisplayed /\ body = {tooltip.id}
  /\ frames # <<>> /\ frames[Len(frames)].tip = tooltip.id

\* ---------------------------------------------------------------------------
\* Listeners and globals across init and destroy, under Spec

\* C19: in every state reachable by any sequence of init (accepted, rejected or
\* repeated), destroy and re-init, each of the four document events has exactly
\* one registered handler when initialized is true and none when it is false,
\* the three global functions are exposed exactly when initialized is true, and
\* a re-init after destroy starts with the modifier not held.
C19_OneHandlerPerEventIffInitialized ==
  [][
      /\ \A t \in EventTypes :
           Len(listeners[t]) = IF isInitialized THEN 1 ELSE 0
      /\ isInitialized =>
           \A t \in EventTypes : listeners[t] = <<handlers[t]>> /\ handlers[t] # 0
      /\ globals = IF isInitialized THEN GlobalNames ELSE {}
      /\ (~isInitialized /\ isInitialized') =>
           /\ lastOp' = "init"
           /\ ~ModifierHeld'
           /\ \A t \in EventTypes : Len(listeners'[t]) = 1
           /\ globals' = GlobalNames
    ]_vars

\* a session initialised again after an earlier one, which copied, was destroyed
C19_Witness ==
  /\ lastOp = "init" /\ ret = "log: helper ready"
  /\ isInitialized /\ ~ModifierHeld
  /\ toasts # <<>>

\* ---------------------------------------------------------------------------
\* The tooltip's position, under SpecTip

\* the tooltip is shown and the callback of its last showTooltip has run
TooltipPlaced ==
  lastOp = "async" /\ TooltipDisplayed /\ frames = <<>>

\* C16: for every pointer position inside the viewport and every tooltip size
\* not larger than the viewport, after showTooltip and the frame callback that
\* follows it the tooltip's box lies within the viewport (left >= 0, top >= 0,
\* right <= viewport width, bottom <= viewport height); it is at the pointer plus
\* (15, 15) unless that would overflow the right or bottom edge, and then it is
\* flipped to the other side of the pointer.
C16_Original ==
  TooltipPlaced =>
    /\ tooltip.left >= 0
    /\ tooltip.top >= 0
    /\ tooltip.left + layout.tw <= layout.vw
    /\ tooltip.top + layout.th <= layout.vh
    /\ \E pt \in layout.points :
         /\ tooltip.left = IF pt.x + 15 + layout.tw > layout.vw
                           THEN pt.x - layout.tw - 15 ELSE pt.x + 15
         /\ tooltip.top = IF pt.y + 15 + layout.th > layout.vh
                          THEN pt.y - layout.th - 15 ELSE pt.y + 15

\* the first half of C16 alone: the box is within the viewport
C16_BoxWithinViewport ==
  TooltipPlaced =>
    /\ tooltip.left >= 0
    /\ tooltip.top >= 0
    /\ tooltip.left + layout.tw <= layout.vw
    /\ tooltip.top + layout.th <= layout.vh
====
